---------------------------- MODULE Spec2Model ----------------------------
(***************************************************************************)
(* Model of the endless-runner engine of temple-run-angular:               *)
(*   src/src/app/services/game.service.ts      (GameService)               *)
(*   src/src/app/components/game/game.component.ts (GameComponent)         *)
(*                                                                         *)
(* Numbers.  Every length, speed and score of the program is a double.     *)
(* The model keeps them as integers in units of 0.00005 (the speed         *)
(* increment of updateGame), so 1.0 is 20000 units; sums and comparisons   *)
(* are then exact.  The two animation counters are kept as the number of   *)
(* increments applied, and their "< 1" tests are the ones IEEE doubles     *)
(* give: ten additions of 0.1 yield 0.9999999999999999 (still < 1), twenty *)
(* additions of 0.05 yield 1.0000000000000002 (not < 1).                   *)
(*                                                                         *)
(* Scheduling.  requestAnimationFrame callbacks registered before a        *)
(* display refresh run one after the other in registration order during    *)
(* that refresh; callbacks they register run in the next refresh.  raf is  *)
(* the list registered for the next refresh, frame the rest of the list    *)
(* being run in the current one.  Host calls (key events, start, restart,  *)
(* tick, destroy) are tasks of their own and run only between refreshes.   *)
(***************************************************************************)
EXTENDS Integers, Sequences, FiniteSets

(* ------------------------------ units --------------------------------- *)
SpeedIncrement == 1                      \* 0.00005
Unit           == 20000 * SpeedIncrement \* 1.0
Tenth          == Unit \div 10           \* 0.1

(* ------------------------- program constants -------------------------- *)
BaseSpeed      == 4000                   \* 0.2
trackLength    == 500 * Unit
RecycleMargin  == 20 * Unit
lanes          == << -2 * Unit, 0, 2 * Unit >>   \* 1-based: lanes[l + 1]
PlayerZ        == 0
PlayerWidth    == 7 * Tenth
PlayerDepth    == 5 * Tenth
PlayerHeight   == 15 * Tenth
ObjectWidth    == 8 * Tenth
ObjectDepth    == 8 * Tenth
ObjectHeight   == 10 * Tenth
CoinY          == 8 * Tenth
CoinReward     == 10 * Unit
DistanceReward == Tenth
FirstRowZ      == -15 * Unit
LeadOut        == 15 * Unit
LaneSteps      == 11
JumpSteps      == 20

(* ------------------------------ bounds -------------------------------- *)
MaxRows      == 1     \* rows one lap generation places before it is cut off
MaxTicks     == 3     \* Active ticks taken beyond the start of a run
MaxPending   == 1     \* animation callbacks pending at a time
MaxOverlap   == 2     \* the same, where animations are let overlap
KeyGrid      == Unit \div 5   \* a lane key comes while x is a multiple of 0.2
MaxLift      == 12361 \* a jump key comes while y is at most 0.618
MaxLoops     == 2     \* frame loops of the view pending at a time
WarmObstacle == 71    \* frames already played when the first row is near
WarmRecycle  == 1930  \* frames already played when the lap end is near

Abs(n) == IF n < 0 THEN -n ELSE n

Lane(l) == lanes[l + 1]

\* createObstacle: rock and log sit at y = 0.4, the statue at y = 0.2
ObstacleY(obstacleType) == IF obstacleType = 2 THEN 2 * Tenth ELSE 4 * Tenth

\* height = jumpHeight * sin(jumpProgress * PI), jumpProgress = k * 0.05,
\* rounded to the unit
JumpArc ==
  << 6257, 12361, 18160, 23511, 28284, 32361, 35640, 38042, 39508, 40000,
     39508, 38042, 35640, 32361, 28284, 23511, 18160, 12361, 6257, 0 >>

VARIABLES
  isGameOver, isGameActive,   \* _gameState.value
  score,                      \* _score.value
  speed, trackPosition,
  playerLane, isJumping,
  px, py,                     \* player.position.x / .y  (z stays PlayerZ)
  obstacles, coins,           \* sequences of [x, y, z]
  raf, frame,                 \* frame callbacks: next refresh / rest of this one
  animationId,                \* GameComponent.animationId is non-zero
  showStartScreen, destroyed, \* GameComponent
  overs                       \* history: ticks that raised GameOver since
                              \* the last restartGame()

gameVars == << isGameOver, isGameActive, score, speed, trackPosition,
               obstacles, coins >>
playerVars == << playerLane, isJumping, px, py >>
compVars == << animationId, showStartScreen, destroyed >>
vars == << isGameOver, isGameActive, score, speed, trackPosition,
           playerLane, isJumping, px, py, obstacles, coins, raf, frame,
           animationId, showStartScreen, destroyed, overs >>


(* ------------------------- collision geometry ------------------------- *)
\* the player as isPlayerColliding reads it
Player == [ x |-> px, y |-> py, isJumping |-> isJumping ]

\* mutant of isPlayerColliding: boxes that only touch count as overlapping
isPlayerCollidingInclusive(p, object) ==
  LET height == IF p.isJumping THEN 0 ELSE PlayerHeight
      xCollision == Abs(p.x - object.x) * 2 <= PlayerWidth + ObjectWidth
      zCollision == Abs(PlayerZ - object.z) * 2 <= PlayerDepth + ObjectDepth
      yCollision == Abs(p.y - object.y) * 2 <= height + ObjectHeight
  IN  xCollision /\ zCollision /\ yCollision

\* isPlayerColliding(object) for a player p: strict on the three axes
isPlayerColliding(p, object) ==
  LET height == IF p.isJumping THEN 0 ELSE PlayerHeight
      xCollision == Abs(p.x - object.x) * 2 < PlayerWidth + ObjectWidth
      zCollision == Abs(PlayerZ - object.z) * 2 < PlayerDepth + ObjectDepth
      yCollision == Abs(p.y - object.y) * 2 < height + ObjectHeight
  IN  xCollision /\ zCollision /\ yCollision

(* -------------------------- layout generator -------------------------- *)
\* the outcomes of Math.random() the model draws (the obstacle kind only
\* sets the obstacle's y, 0.4 or 0.2: one kind is drawn)
ObstacleTypes == { 0 }                   \* Math.floor(Math.random() * 3)
RowSteps      == { 5 * Unit, 10 * Unit } \* Math.random() * 10 + 5
Jitters       == { Unit \div 5 }        \* Math.random() * 3
NoCoin        == 0 - 1                   \* Math.random() > 0.3 is false

\* mutant of RowCoins: the obstacle's lane is not skipped
RowCoinsEveryLane(z, obstacleLane, jit) ==
  [ i \in 1 .. 3 |-> [ x |-> lanes[i], y |-> CoinY, z |-> z ] ]

\* the coins one row gets: lane by lane, skipping the obstacle's lane
RowCoins(z, obstacleLane, jit) ==
  LET ls == SelectSeq(<< 0, 1, 2 >>,
                      LAMBDA l : l # obstacleLane /\ jit[l] # NoCoin)
  IN  [ i \in 1 .. Len(ls) |->
          [ x |-> Lane(ls[i]), y |-> CoinY, z |-> z - jit[ls[i]] ] ]

RowChoices ==
  { c \in [ lane : 0 .. 2, type : ObstacleTypes,
            jit : [ 0 .. 2 -> Jitters \cup { NoCoin } ] ] :
      c.jit[c.lane] = NoCoin }

\* the body of the for loop of generateObstaclesAndCoins from row z on,
\* cut off after n rows
RECURSIVE GenerateRows(_, _)
GenerateRows(z, n) ==
  IF n = 0 \/ ~(z > LeadOut - trackLength)
  THEN { [ obstacles |-> << >>, coins |-> << >> ] }
  ELSE UNION {
         { [ obstacles |->
               << [ x |-> Lane(c.lane), y |-> ObstacleY(c.type), z |-> z ] >>
               \o rest.obstacles,
             coins |-> RowCoins(z, c.lane, c.jit) \o rest.coins ] :
           rest \in UNION { GenerateRows(z - step, n - 1) : step \in RowSteps } } :
         c \in RowChoices }

\* generateObstaclesAndCoins(): the old lists are dropped, a new lap is made
generateObstaclesAndCoins == GenerateRows(FirstRowZ, MaxRows)

(* --------------------------- initial states --------------------------- *)
SpeedAfter(n) == BaseSpeed + n * SpeedIncrement
\* the sum of the speeds of ticks 1 .. n
DistanceAfter(n) == n * BaseSpeed + SpeedIncrement * ((n * (n + 1)) \div 2)

Advanced(es, d) == [ i \in 1 .. Len(es) |-> [ es[i] EXCEPT !.z = @ + d ] ]

\* the service and the view right after construction (initGame)
InitCold ==
  /\ isGameOver = FALSE /\ isGameActive = FALSE
  /\ score = 0 /\ speed = BaseSpeed /\ trackPosition = 0
  /\ playerLane = 1 /\ isJumping = FALSE /\ px = Lane(1) /\ py = 0
  /\ \E lap \in generateObstaclesAndCoins :
       obstacles = lap.obstacles /\ coins = lap.coins
  /\ raf = << >> /\ frame = << >>
  /\ animationId = FALSE /\ showStartScreen = TRUE /\ destroyed = FALSE
  /\ overs = 0

\* nothing of the lap has come within reach of a player standing in lane l
\* during the first n ticks (z only grows)
Uneventful(lap, l, n) ==
  \A i \in 1 .. Len(lap) :
    \/ lap[i].x # Lane(l)
    \/ (lap[i].z + DistanceAfter(n) - PlayerZ) * 2 <= 0 - (PlayerDepth + ObjectDepth)

\* the service after startGame(), a lane change made at once and finished,
\* and n ticks in which nothing came within reach
InitWarm(n) ==
  /\ isGameOver = FALSE /\ isGameActive = TRUE
  /\ score = n * DistanceReward
  /\ speed = SpeedAfter(n) /\ trackPosition = DistanceAfter(n)
  /\ playerLane \in 0 .. 2 /\ isJumping = FALSE
  /\ px = Lane(playerLane) /\ py = 0
  /\ \E lap \in generateObstaclesAndCoins :
       /\ Uneventful(lap.obstacles \o lap.coins, playerLane, n)
       /\ obstacles = Advanced(lap.obstacles, DistanceAfter(n))
       /\ coins = Advanced(lap.coins, DistanceAfter(n))
  /\ raf = << >> /\ frame = << >>
  /\ animationId = FALSE /\ showStartScreen = TRUE /\ destroyed = FALSE
  /\ overs = 0

Init == InitCold \/ InitWarm(WarmObstacle) \/ InitWarm(WarmRecycle)

\* the service after construction and startGame()
InitStarted ==
  /\ isGameOver = FALSE /\ isGameActive = TRUE
  /\ score = 0 /\ speed = BaseSpeed /\ trackPosition = 0
  /\ playerLane = 1 /\ isJumping = FALSE /\ px = Lane(1) /\ py = 0
  /\ \E lap \in generateObstaclesAndCoins :
       obstacles = lap.obstacles /\ coins = lap.coins
  /\ raf = << >> /\ frame = << >>
  /\ animationId = FALSE /\ showStartScreen = TRUE /\ destroyed = FALSE
  /\ overs = 0



(* ------------------------------ the tick ------------------------------ *)
Game == [ isGameOver |-> isGameOver, isGameActive |-> isGameActive,
          score |-> score, speed |-> speed, trackPosition |-> trackPosition,
          obstacles |-> obstacles, coins |-> coins ]

SetGame(g) ==
  /\ isGameOver' = g.isGameOver /\ isGameActive' = g.isGameActive
  /\ score' = g.score /\ speed' = g.speed
  /\ trackPosition' = g.trackPosition
  /\ obstacles' = g.obstacles /\ coins' = g.coins

\* the guard of updateGame and handleKeyDown lets these states through
IsActive(g) == g.isGameActive /\ ~g.isGameOver

\* mutant of increaseScore: the amount replaces the score
increaseScoreReplaces(currentScore, amount) == amount

increaseScore(currentScore, amount) == currentScore + amount

\* mutant of gameOver: the run is flagged over but left active
gameOverStillActive == [ isGameOver |-> TRUE, isGameActive |-> TRUE ]

\* gameOver(): the state it publishes
gameOver == [ isGameOver |-> TRUE, isGameActive |-> FALSE ]

\* mutant of NeedsRecycle: the margin is forgotten
NeedsRecycleAtEnd(position) == position >= trackLength

\* the test that restarts the track
NeedsRecycle(position) == position >= trackLength - RecycleMargin

\* coins.splice(i, 1)
Splice(cs, i) == SubSeq(cs, 1, i - 1) \o SubSeq(cs, i + 1, Len(cs))

\* mutant of CoinLoop: the list is walked upwards, so the coin that slides
\* into a removed coin's place is skipped
RECURSIVE CoinLoopUp(_, _, _, _, _)
CoinLoopUp(cs, j, sc, sp, p) ==
  IF j > Len(cs)
  THEN [ coins |-> cs, score |-> sc ]
  ELSE LET coin == [ cs[j] EXCEPT !.z = @ + sp ]
       IN  IF isPlayerColliding(p, coin)
           THEN CoinLoopUp(Splice(cs, j), j + 1, sc + CoinReward, sp, p)
           ELSE CoinLoopUp([ cs EXCEPT ![j] = coin ], j + 1, sc, sp, p)

CoinLoopForward(cs, i, sc, sp, p) == CoinLoopUp(cs, 1, sc, sp, p)

\* the coin loop from index i down to 1: cs the list, sc the score, sp the
\* speed, p the player
RECURSIVE CoinLoop(_, _, _, _, _)
CoinLoop(cs, i, sc, sp, p) ==
  IF i < 1
  THEN [ coins |-> cs, score |-> sc ]
  ELSE LET coin == [ cs[i] EXCEPT !.z = @ + sp ]
       IN  IF isPlayerColliding(p, coin)
           THEN CoinLoop(Splice(cs, i), i - 1, increaseScore(sc, CoinReward),
                         sp, p)
           ELSE CoinLoop([ cs EXCEPT ![i] = coin ], i - 1, sc, sp, p)

\* the obstacle loop: every obstacle is moved; gameOver() is called for each
\* one that then touches the player
ObstacleLoop(os, state, sp, p) ==
  LET moved == Advanced(os, sp)
      hits  == Cardinality({ i \in 1 .. Len(moved) :
                               isPlayerColliding(p, moved[i]) })
  IN  [ obstacles |-> moved, hits |-> hits,
        state |-> IF hits > 0 THEN gameOver ELSE state ]

\* the body of updateGame() past its guard, on game g with player p, given
\* the lap the generator returns if the track restarts
UpdateGameWith(g, p, fresh) ==
  LET speed1    == g.speed + SpeedIncrement
      position1 == g.trackPosition + speed1
      recycle   == NeedsRecycle(position1)
      lap       == IF recycle THEN fresh
                   ELSE [ obstacles |-> g.obstacles, coins |-> g.coins ]
      obs       == ObstacleLoop(lap.obstacles,
                                [ isGameOver |-> g.isGameOver,
                                  isGameActive |-> g.isGameActive ],
                                speed1, p)
      pass      == CoinLoop(lap.coins, Len(lap.coins), g.score, speed1, p)
  IN  [ game |-> [ isGameOver    |-> obs.state.isGameOver,
                   isGameActive  |-> obs.state.isGameActive,
                   score         |-> increaseScore(pass.score, DistanceReward),
                   speed         |-> speed1,
                   trackPosition |-> IF recycle THEN 0 ELSE position1,
                   obstacles     |-> obs.obstacles,
                   coins         |-> pass.coins ],
        hits |-> obs.hits ]

\* mutant of updateGame: the guard on the phase is missing
updateGameUnguarded(g, p) ==
  { UpdateGameWith(g, p, fresh) : fresh \in generateObstaclesAndCoins }

\* updateGame(): every outcome (one per lap the generator can return, when
\* it is called)
updateGame(g, p) ==
  IF ~g.isGameActive \/ g.isGameOver
  THEN { [ game |-> g, hits |-> 0 ] }
  ELSE IF NeedsRecycle(g.trackPosition + g.speed + SpeedIncrement)
       THEN { UpdateGameWith(g, p, fresh) :
                fresh \in generateObstaclesAndCoins }
       ELSE { UpdateGameWith(g, p, [ obstacles |-> << >>, coins |-> << >> ]) }

\* the bound on Active ticks: at most MaxTicks beyond the start of a run
TickAllowed(g) ==
  \/ ~IsActive(g)
  \/ \E w \in { 0, WarmObstacle, WarmRecycle } :
       SpeedAfter(w) <= g.speed /\ g.speed < SpeedAfter(w + MaxTicks)

\* startGame(): score and phase only
startGame(g) ==
  [ g EXCEPT !.score = 0, !.isGameOver = FALSE, !.isGameActive = TRUE ]

\* mutant of restartGameWith: the speed is not reset
restartGameKeepsSpeed(g, lap) ==
  [ isGameOver |-> FALSE, isGameActive |-> TRUE, score |-> 0,
    speed |-> g.speed, trackPosition |-> 0,
    obstacles |-> lap.obstacles, coins |-> lap.coins ]

\* mutant of restartGameWith: the new lap is added to the old one
restartGameAdditive(g, lap) ==
  [ isGameOver |-> FALSE, isGameActive |-> TRUE, score |-> 0,
    speed |-> BaseSpeed, trackPosition |-> 0,
    obstacles |-> g.obstacles \o lap.obstacles,
    coins |-> g.coins \o lap.coins ]

\* restartGame(): the game part, given the lap the generator returns
restartGameWith(g, lap) ==
  [ isGameOver |-> FALSE, isGameActive |-> TRUE, score |-> 0,
    speed |-> BaseSpeed, trackPosition |-> 0,
    obstacles |-> lap.obstacles, coins |-> lap.coins ]

restartGame(g) ==
  { restartGameWith(g, lap) : lap \in generateObstaclesAndCoins }

\* restartGame(): the player part
ResetPlayer == [ x |-> Lane(1), y |-> 0, isJumping |-> FALSE ]

SetPlayer(p, lane) ==
  /\ px' = p.x /\ py' = p.y /\ isJumping' = p.isJumping /\ playerLane' = lane

(* --------------------------- frame callbacks -------------------------- *)
\* a pending requestAnimationFrame callback and what its closure holds:
\*   "animateLaneChange": start = startX, target = targetX, progress in 0.1s
\*   "animateJump":       start = initialY, progress in 0.05s
\*   "animate":           the view's loop; current = its handle is animationId
Callback(kind, start, target, progress, current) ==
  [ kind |-> kind, start |-> start, target |-> target, progress |-> progress,
    current |-> current ]

\* the callbacks of the refresh being run, and those kept for the next one
Batch == IF frame = << >> THEN raf ELSE frame
Later == IF frame = << >> THEN << >> ELSE raf

\* mutant of Ran: what the callback registers is lost
RanForgets(sched) == frame' = Tail(Batch) /\ raf' = Later

\* the head of the batch has run and has registered the callbacks sched
Ran(sched) == frame' = Tail(Batch) /\ raf' = Later \o sched

\* host tasks run between refreshes
BetweenFrames == frame = << >>

InFlight(kinds) ==
  Len(SelectSeq(raf \o frame, LAMBDA cb : cb.kind \in kinds))

\* the bound on pending animation callbacks
MayAnimateWithin(cap) ==
  InFlight({ "animateLaneChange", "animateJump" }) < cap

MayAnimate == MayAnimateWithin(MaxPending)

\* progress < 1 after k additions of 0.1: true up to the tenth
LaneProgressBelowOne(k) == k < LaneSteps
\* jumpProgress < 1 after k additions of 0.05: false from the twentieth
JumpProgressBelowOne(k) == k < JumpSteps

\* startX + (targetX - startX) * progress
LaneX(startX, targetX, k) == startX + ((targetX - startX) * k) \div 10

(* --------------------------- player motion ---------------------------- *)
\* mutant of NewLane: the lane wraps around instead of being clamped
NewLaneWraps(lane, direction) == (lane + direction) % 3

\* Math.max(0, Math.min(2, playerLane + direction))
NewLane(lane, direction) ==
  LET m == IF lane + direction < 2 THEN lane + direction ELSE 2
  IN  IF m > 0 THEN m ELSE 0

\* moveLanes(direction), with the first animateLaneChange() it calls, while
\* fewer than cap animation callbacks are pending
moveLanesWithin(direction, cap) ==
  LET newLane == NewLane(playerLane, direction)
  IN  IF newLane # playerLane
      THEN /\ MayAnimateWithin(cap)
           /\ px % KeyGrid = 0
           /\ playerLane' = newLane
           /\ px' = LaneX(px, Lane(newLane), 1)
           /\ raf' = raf \o << Callback("animateLaneChange", px,
                                        Lane(newLane), 1, FALSE) >>
           /\ UNCHANGED << isJumping, py >>
      ELSE UNCHANGED << playerLane, px, raf, isJumping, py >>

moveLanes(direction) == moveLanesWithin(direction, MaxPending)

\* mutant of jumpWithin: the test of isJumping is missing
jumpWithinAgain(cap) ==
  /\ MayAnimateWithin(cap)
  /\ py <= MaxLift
  /\ isJumping' = TRUE
  /\ py' = py + JumpArc[1]
  /\ raf' = raf \o << Callback("animateJump", py, 0, 1, FALSE) >>
  /\ UNCHANGED << playerLane, px >>

\* jump(), with the first animateJump() it calls, while fewer than cap
\* animation callbacks are pending
jumpWithin(cap) ==
  IF isJumping
  THEN UNCHANGED << playerLane, px, raf, isJumping, py >>
  ELSE /\ MayAnimateWithin(cap)
       /\ py <= MaxLift
       /\ isJumping' = TRUE
       /\ py' = py + JumpArc[1]
       /\ raf' = raf \o << Callback("animateJump", py, 0, 1, FALSE) >>
       /\ UNCHANGED << playerLane, px >>

jump == jumpWithin(MaxPending)

\* event.key, one per branch of the switch ("Escape": no branch)
Keys == { "ArrowLeft", "ArrowRight", "ArrowUp", "Escape" }

\* handleKeyDown(event): ignored unless the game is active
handleKeyDownWithin(key, cap) ==
  /\ BetweenFrames
  /\ IF ~isGameActive \/ isGameOver
     THEN UNCHANGED << playerLane, px, raf, isJumping, py >>
     ELSE CASE key = "ArrowLeft"  -> moveLanesWithin(0 - 1, cap)
            [] key = "ArrowRight" -> moveLanesWithin(1, cap)
            [] key = "ArrowUp"    -> jumpWithin(cap)
            [] OTHER -> UNCHANGED << playerLane, px, raf, isJumping, py >>
  /\ UNCHANGED << gameVars, frame, compVars, overs >>

handleKeyDown(key) == handleKeyDownWithin(key, MaxPending)

\* the frame callback of a lane change
animateLaneChange ==
  /\ Batch # << >> /\ Head(Batch).kind = "animateLaneChange"
  /\ LET cb == Head(Batch)
         progress == cb.progress + 1
     IN  IF LaneProgressBelowOne(progress)
         THEN /\ px' = LaneX(cb.start, cb.target, progress)
              /\ Ran(<< [ cb EXCEPT !.progress = progress ] >>)
         ELSE /\ px' = cb.target
              /\ Ran(<< >>)
  /\ UNCHANGED << gameVars, playerLane, isJumping, py, compVars, overs >>

\* the frame callback of a jump
animateJump ==
  /\ Batch # << >> /\ Head(Batch).kind = "animateJump"
  /\ LET cb == Head(Batch)
         jumpProgress == cb.progress + 1
     IN  IF JumpProgressBelowOne(jumpProgress)
         THEN /\ py' = cb.start + JumpArc[jumpProgress]
              /\ Ran(<< [ cb EXCEPT !.progress = jumpProgress ] >>)
              /\ UNCHANGED isJumping
         ELSE /\ py' = cb.start
              /\ isJumping' = FALSE
              /\ Ran(<< >>)
  /\ UNCHANGED << gameVars, playerLane, px, compVars, overs >>

(* ------------------------ GameService operations ---------------------- *)
\* the host calls startGame()
GameService_startGame ==
  /\ BetweenFrames
  /\ SetGame(startGame(Game))
  /\ UNCHANGED << playerVars, raf, frame, compVars, overs >>

\* the host calls restartGame()
GameService_restartGame ==
  /\ BetweenFrames
  /\ SetPlayer(ResetPlayer, 1)
  /\ overs' = 0
  /\ UNCHANGED << raf, frame, compVars >>
  /\ \E g \in restartGame(Game) : SetGame(g)

\* the host calls updateGame()
GameService_updateGame ==
  /\ BetweenFrames
  /\ TickAllowed(Game)
  /\ \E out \in updateGame(Game, Player) :
       /\ SetGame(out.game)
       /\ overs' = overs + (IF out.hits > 0 THEN 1 ELSE 0)
  /\ UNCHANGED << playerVars, raf, frame, compVars >>

(* ----------------------------- GameComponent -------------------------- *)
\* a newer handle replaces the one animationId held
Unmark(q) ==
  [ i \in 1 .. Len(q) |->
      IF q[i].kind = "animate" THEN [ q[i] EXCEPT !.current = FALSE ] ELSE q[i] ]

LoopCallback == Callback("animate", 0, 0, 0, TRUE)

\* the bound on pending loops of the view
MayLoop == InFlight({ "animate" }) < MaxLoops

\* startGame() of the view: the service's startGame(), then animate()
GameComponent_startGame ==
  /\ BetweenFrames /\ ~destroyed
  /\ MayLoop
  /\ showStartScreen' = FALSE
  /\ LET g == startGame(Game)
     IN  /\ TickAllowed(g)
         /\ \E out \in updateGame(g, Player) :
              /\ SetGame(out.game)
              /\ overs' = overs + (IF out.hits > 0 THEN 1 ELSE 0)
  /\ animationId' = TRUE
  /\ raf' = Unmark(raf) \o << LoopCallback >>
  /\ UNCHANGED << playerVars, frame, destroyed >>

\* restartGame() of the view: the service's restartGame(), then animate()
\* if no handle was ever stored
GameComponent_restartGame ==
  /\ BetweenFrames /\ ~destroyed
  /\ SetPlayer(ResetPlayer, 1)
  /\ \E g \in restartGame(Game) :
       IF animationId
       THEN /\ SetGame(g)
            /\ overs' = 0
            /\ UNCHANGED << raf, animationId >>
       ELSE /\ TickAllowed(g)
            /\ \E out \in updateGame(g, ResetPlayer) :
                 /\ SetGame(out.game)
                 /\ overs' = (IF out.hits > 0 THEN 1 ELSE 0)
            /\ animationId' = TRUE
            /\ raf' = Unmark(raf) \o << LoopCallback >>
  /\ UNCHANGED << frame, showStartScreen, destroyed >>

\* animate() as a frame callback: reschedules itself, ticks, renders
GameComponent_animate ==
  /\ Batch # << >> /\ Head(Batch).kind = "animate"
  /\ TickAllowed(Game)
  /\ animationId' = TRUE
  /\ frame' = Unmark(Tail(Batch))
  /\ raf' = Unmark(Later) \o << LoopCallback >>
  /\ \E out \in updateGame(Game, Player) :
       /\ SetGame(out.game)
       /\ overs' = overs + (IF out.hits > 0 THEN 1 ELSE 0)
  /\ UNCHANGED << playerVars, showStartScreen, destroyed >>

\* ngOnDestroy(): cancels the callback whose handle animationId holds
ngOnDestroy ==
  /\ BetweenFrames /\ ~destroyed
  /\ destroyed' = TRUE
  /\ raf' = IF animationId
            THEN SelectSeq(raf, LAMBDA cb : ~cb.current)
            ELSE raf
  /\ UNCHANGED << gameVars, playerVars, frame, animationId, showStartScreen,
                  overs >>

(* ---------------------------- specifications -------------------------- *)
\* the engine, driven through the operations of GameService
Next ==
  \/ GameService_startGame
  \/ GameService_restartGame
  \/ GameService_updateGame
  \/ \E key \in Keys : handleKeyDown(key)
  \/ animateLaneChange
  \/ animateJump

Spec == Init /\ [][Next]_vars

\* the engine where the display keeps refreshing: a registered frame
\* callback is run in the end
SpecFair ==
  /\ Init /\ [][Next]_vars
  /\ WF_vars(animateLaneChange) /\ WF_vars(animateJump)

\* the engine, driven by GameComponent and its frame loop
NextView ==
  \/ GameComponent_startGame
  \/ GameComponent_restartGame
  \/ GameComponent_animate
  \/ ngOnDestroy
  \/ \E key \in Keys : handleKeyDown(key)
  \/ animateLaneChange
  \/ animateJump

SpecView == InitCold /\ [][NextView]_vars

\* the overlap test on its own: a started game whose one obstacle will be,
\* after the tick that moves it, at the edge of the player's reach or one
\* unit inside it, on each axis and on either side
ReachX == (PlayerWidth + ObjectWidth) \div 2
ReachY == (PlayerHeight + ObjectHeight) \div 2
ReachZ == (PlayerDepth + ObjectDepth) \div 2

AtEdge(reach) == { 0 - reach, SpeedIncrement - reach,
                   reach - SpeedIncrement, reach }

InitOverlap ==
  /\ isGameOver = FALSE /\ isGameActive = TRUE
  /\ score = 0 /\ speed = BaseSpeed /\ trackPosition = 0
  /\ playerLane = 1 /\ isJumping = FALSE /\ px = Lane(1) /\ py = 0
  /\ \E dx \in AtEdge(ReachX), dy \in AtEdge(ReachY), dz \in AtEdge(ReachZ) :
       obstacles = << [ x |-> px + dx, y |-> py + dy,
                        z |-> PlayerZ + dz - (BaseSpeed + SpeedIncrement) ] >>
  /\ coins = << >>
  /\ raf = << >> /\ frame = << >>
  /\ animationId = FALSE /\ showStartScreen = TRUE /\ destroyed = FALSE
  /\ overs = 0

NextOverlap == GameService_updateGame

SpecOverlap == InitOverlap /\ [][NextOverlap]_vars

\* lane changes in a started game, let overlap
NextLane ==
  \/ GameService_restartGame
  \/ \E key \in { "ArrowLeft", "ArrowRight" } :
       handleKeyDownWithin(key, MaxOverlap)
  \/ animateLaneChange

SpecLane == InitStarted /\ [][NextLane]_vars

\* jumps in a started game, let overlap
NextJump ==
  \/ GameService_restartGame
  \/ handleKeyDownWithin("ArrowUp", MaxOverlap)
  \/ animateJump

SpecJump == InitStarted /\ [][NextJump]_vars

(* ------------------------------- claims ------------------------------- *)
\* a tick that passes the guard of updateGame
ActiveTick == GameService_updateGame /\ IsActive(Game)

\* the coins of cs that touch the player once moved by sp
Touched(cs, sp) ==
  { i \in 1 .. Len(cs) :
      isPlayerColliding(Player, [ cs[i] EXCEPT !.z = @ + sp ]) }

\* the coin lists a tick can start its coin loop with: the current one, or
\* a new lap's if the track restarts in this tick
CoinBases ==
  IF trackPosition + speed + SpeedIncrement >= trackLength - RecycleMargin
  THEN { lap.coins : lap \in generateObstaclesAndCoins }
  ELSE { coins }

\* Active ticks taken since the run began, as the speed tells
TicksTaken == (speed - BaseSpeed) \div SpeedIncrement

\* C1: in every Active tick, if an obstacle, once moved by speed, overlaps
\* the player's box, the tick ends with isGameOver true and isGameActive
\* false.
C1_CollisionEndsRun ==
  [][ ActiveTick =>
        ( (\E i \in 1 .. Len(obstacles') :
             isPlayerColliding(Player, obstacles'[i]))
          => (isGameOver' /\ ~isGameActive') ) ]_vars

\* C1 witness: a tick has moved an obstacle onto the player and ended the run
C1_Witness ==
  /\ isGameOver /\ ~isGameActive /\ overs = 1
  /\ \E i \in 1 .. Len(obstacles) : isPlayerColliding(Player, obstacles[i])

\* C2: a tick taken while the phase is Idle or GameOver changes nothing:
\* not the score, the speed, trackPosition, the phase flags, nor any
\* obstacle or coin (nor anything else).
C2_InactiveTickNoOp ==
  [][ (GameService_updateGame /\ ~IsActive(Game)) => UNCHANGED vars ]_vars

\* C2 witness: the run is over while entities are on the track, so ticks
\* taken now would move them if they were not no-ops
C2_Witness ==
  /\ isGameOver /\ ~isGameActive /\ BetweenFrames
  /\ Len(obstacles) > 0 /\ score > 0

\* C3 (as claimed): startGame() called while the phase is not Idle changes
\* neither the phase nor score, speed, trackPosition, player or entities.
C3_StartOnlyFromIdle ==
  [][ (GameService_startGame /\ (isGameActive \/ isGameOver))
        => UNCHANGED << gameVars, playerVars >> ]_vars

\* the game fields restartGame() is claimed to leave
ResetGame ==
  /\ ~isGameOver /\ isGameActive
  /\ score = 0 /\ speed = BaseSpeed /\ trackPosition = 0
  /\ [ obstacles |-> obstacles, coins |-> coins ] \in generateObstaclesAndCoins

\* the state restartGame() is claimed to leave
ResetState ==
  /\ ResetGame
  /\ playerLane = 1 /\ px = Lane(1) /\ py = 0 /\ ~isJumping

\* a tick can be taken now
TickEnabled == BetweenFrames /\ TickAllowed(Game)

\* C4: restartGame(), from GameOver or from Active, leaves phase Active,
\* score 0, speed 0.2, trackPosition 0, the player in lane 1 at lanes[1],
\* grounded and not jumping, and a newly generated lap; a tick can follow,
\* and a tick taken on the reset game raises the score.
C4_RestartResets ==
  /\ [][ GameService_restartGame => (ResetState /\ TickEnabled)' ]_vars
  /\ [][ (ActiveTick /\ ResetGame) => score' > score ]_vars

\* C4 witness: restartGame() was called in the middle of a jump (the jump's
\* callback is still pending, the player is back on the ground)
C4_Witness ==
  /\ ResetState
  /\ raf # << >> /\ Head(raf).kind = "animateJump"

\* C5 (as claimed): between two restartGame() calls at most one tick raises
\* GameOver.
C5_OneGameOverPerRun == overs <= 1

\* C6: 0 <= trackPosition < trackLength - 20 in every state, and an Active
\* tick whose advanced trackPosition reaches trackLength - 20 ends with
\* trackPosition = 0.
C6_TrackPositionRange ==
  /\ [](0 <= trackPosition /\ trackPosition < trackLength - RecycleMargin)
  /\ [][ (ActiveTick /\ trackPosition + speed + SpeedIncrement
                          >= trackLength - RecycleMargin)
           => trackPosition' = 0 ]_vars

\* C6 witness: the lap was recycled (trackPosition is back at 0 in a run
\* whose speed is past that of the warmed-up start)
C6_Witness ==
  /\ isGameActive /\ trackPosition = 0
  /\ speed > SpeedAfter(WarmRecycle)

\* C7 (as claimed): speed never decreases in a tick, and right after every
\* startGame() and every restartGame() it is the base value.
C7_SpeedRampAndReset ==
  [][ /\ GameService_updateGame => speed' >= speed
      /\ (GameService_startGame \/ GameService_restartGame)
           => speed' = BaseSpeed ]_vars

\* C8: every Active tick raises the score by exactly 0.1 plus 10 for each
\* coin it collects, the tick that raises GameOver included.
C8_ScorePerTick ==
  [][ ActiveTick =>
        \E base \in CoinBases :
          /\ Len(coins') = Len(base) - Cardinality(Touched(base, speed'))
          /\ score' = score + DistanceReward
                        + CoinReward * Cardinality(Touched(base, speed')) ]_vars

\* C8 witness: a coin was collected in one tick and a later tick of the same
\* run raised GameOver; each tick paid its distance reward
C8_Witness ==
  /\ isGameOver /\ overs = 1
  /\ speed > SpeedAfter(WarmObstacle)
  /\ score = TicksTaken * DistanceReward + CoinReward

\* the coins of cs that do not touch the player once moved by sp, moved
Kept(cs, sp) ==
  LET moved == Advanced(cs, sp)
      keep  == SelectSeq([ i \in 1 .. Len(cs) |-> i ],
                         LAMBDA i : i \notin Touched(cs, sp))
  IN  [ k \in 1 .. Len(keep) |-> moved[keep[k]] ]

\* C9: an Active tick moves every coin once, removes exactly the coins that
\* then touch the player, in order, and adds 10 for each; no coin left in
\* the list touches the player, so none is collected twice.
C9_CoinCollection ==
  [][ ActiveTick =>
        /\ \E base \in CoinBases :
             /\ coins' = Kept(base, speed')
             /\ score' - score - DistanceReward
                  = CoinReward * Cardinality(Touched(base, speed'))
        /\ \A i \in 1 .. Len(coins') :
             ~isPlayerColliding(Player, coins'[i]) ]_vars

\* C9 witness: of two coins one was collected and the other is still there
C9_Witness ==
  /\ isGameActive /\ Len(coins) = 1
  /\ speed > SpeedAfter(WarmObstacle)
  /\ score = TicksTaken * DistanceReward + CoinReward

\* C10: playerLane is 0, 1 or 2 in every state; a left key in lane 0 and a
\* right key in lane 2 change neither the lane nor the lateral position and
\* register no callback.
C10_LaneInRange ==
  /\ [](playerLane \in 0 .. 2)
  /\ [][ ( \/ (handleKeyDown("ArrowLeft") /\ playerLane = 0)
           \/ (handleKeyDown("ArrowRight") /\ playerLane = 2) )
         => UNCHANGED << playerLane, px, raf >> ]_vars

\* C10 witness: in a run begun in lane 1 the player has moved to lane 0 and
\* stands there, where a left key is clamped
C10_Witness ==
  /\ isGameActive /\ ~isGameOver /\ speed = BaseSpeed
  /\ playerLane = 0 /\ px = Lane(0) /\ raf = << >> /\ frame = << >>


\* C11 (as claimed): while isJumping is true no obstacle overlaps the player
\* at any point of the jump arc, and no tick taken while isJumping is true
\* raises GameOver.
C11_JumpClearsObstacles ==
  /\ [][ (ActiveTick /\ isJumping) => ~isGameOver' ]_vars
  /\ [](isJumping =>
          \A i \in 1 .. Len(obstacles) :
            ~isPlayerColliding(Player, obstacles[i]))


\* the pending callbacks, in the order they will run
Pending == frame \o raf

\* an ArrowUp key taken in a started game
JumpKey == handleKeyDownWithin("ArrowUp", MaxOverlap)

\* C12: an ArrowUp key while isJumping is true changes nothing (no callback,
\* no change of y or of a running arc); only an effective key sets isJumping,
\* and it registers one animation that holds the y before the jump; that
\* animation re-registers itself unchanged for 19 more frames and on the 20th
\* clears isJumping, puts y back to the value it holds and ends.
C12_JumpOncePerTrigger ==
  /\ [][ (JumpKey /\ isJumping) => UNCHANGED << playerVars, raf, frame >> ]_vars
  /\ [][ (~isJumping /\ isJumping') => JumpKey ]_vars
  /\ [][ (JumpKey /\ ~isJumping /\ isGameActive /\ ~isGameOver) =>
           /\ isJumping'
           /\ raf' = raf \o << Callback("animateJump", py, 0, 1, FALSE) >> ]_vars
  /\ [][ animateJump =>
           LET cb == Head(Batch)
           IN  IF cb.progress + 1 < JumpSteps
               THEN /\ isJumping' = isJumping
                    /\ Pending' = Tail(Pending)
                                    \o << [ cb EXCEPT !.progress = @ + 1 ] >>
               ELSE /\ ~isJumping' /\ py' = cb.start
                    /\ Pending' = Tail(Pending) ]_vars
  /\ [](\A i \in 1 .. Len(Pending) :
          Pending[i].kind = "animateJump"
            => Pending[i].progress \in 1 .. JumpSteps - 1)

\* C12 witness: a jump is one frame from its end and isJumping is still
\* true, so an ArrowUp key now is one that must be ignored
C12_Witness ==
  /\ isJumping /\ BetweenFrames /\ Len(raf) = 1
  /\ raf[1].kind = "animateJump" /\ raf[1].progress = JumpSteps - 1
  /\ raf[1].start = 0 /\ py = JumpArc[JumpSteps - 1]


\* C13 (as claimed): the call of animateJump that ends a jump leaves
\* isJumping false and y exactly 0, whatever keys, frames and restartGame()
\* calls came before.
C13_JumpLandsAtZero ==
  [][ (animateJump /\ ~JumpProgressBelowOne(Head(Batch).progress + 1))
        => (~isJumping' /\ py' = 0) ]_vars


\* C14 (as claimed): in every state at most one animateLaneChange callback
\* and at most one animateJump callback are pending.
C14_OneAnimationPerKind ==
  /\ InFlight({ "animateLaneChange" }) <= 1
  /\ InFlight({ "animateJump" }) <= 1


\* the x of the three lanes
LaneXs == { lanes[i] : i \in 1 .. 3 }

\* coin c was placed with the row of obstacle o: at the row's z or up to 3
\* behind it (rows are at least 5 apart)
InRow(c, o) == o.z - 3 * Unit < c.z /\ c.z <= o.z

\* C15: every row on the track has exactly one obstacle, in one of the three
\* lanes; every coin belongs to one row, lies in a lane other than that
\* row's obstacle, and no lane of a row has two coins: whatever the
\* generator drew, at construction, on restartGame() and on a recycled lap.
C15_OneObstaclePerRow ==
  /\ \A i \in 1 .. Len(obstacles) : obstacles[i].x \in LaneXs
  /\ \A i, j \in 1 .. Len(obstacles) :
       i # j => Abs(obstacles[i].z - obstacles[j].z) >= 5 * Unit
  /\ \A k \in 1 .. Len(coins) :
       /\ coins[k].x \in LaneXs
       /\ \E i \in 1 .. Len(obstacles) :
            InRow(coins[k], obstacles[i]) /\ coins[k].x # obstacles[i].x
       /\ \A m \in 1 .. Len(coins) :
            (m # k /\ coins[m].x = coins[k].x)
              => Abs(coins[m].z - coins[k].z) >= 2 * Unit
  /\ \A lap \in generateObstaclesAndCoins :
       /\ Len(lap.obstacles) >= 1
       /\ Len(lap.coins) <= 2 * Len(lap.obstacles)

\* C15 witness: a recycled lap whose row has coins in both free lanes
C15_Witness ==
  /\ isGameActive /\ trackPosition = 0 /\ speed > SpeedAfter(WarmRecycle)
  /\ Len(obstacles) >= 1 /\ Len(coins) = 2 * Len(obstacles)
  /\ coins[1].x # coins[2].x


\* a tick that restarts the track
RecycleTick ==
  ActiveTick /\ NeedsRecycle(trackPosition + speed + SpeedIncrement)

\* C16: after restartGame() the obstacle and coin lists are exactly one lap
\* of the generator; after a tick that restarts the track they are exactly
\* one new lap, moved by that tick (less the coins it collects): nothing of
\* the lists as they were before is left, however often this is repeated.
C16_LapReplaced ==
  /\ [][ GameService_restartGame =>
           [ obstacles |-> obstacles', coins |-> coins' ]
             \in generateObstaclesAndCoins ]_vars
  /\ [][ RecycleTick =>
           \E lap \in generateObstaclesAndCoins :
             /\ obstacles' = Advanced(lap.obstacles, speed')
             /\ coins' = Kept(lap.coins, speed') ]_vars

\* C16 witness: the track was restarted by a tick; the first obstacle is a
\* new one, moved once
C16_Witness ==
  /\ trackPosition = 0 /\ speed > SpeedAfter(WarmRecycle)
  /\ Len(obstacles) >= 1 /\ obstacles[1].z = FirstRowZ + speed
  /\ \A k \in 1 .. Len(coins) : coins[k].z < FirstRowZ + speed


\* the distances, after a tick, between the player's centre and that of the
\* first obstacle, axis by axis, each with the reach on that axis
Gaps ==
  LET o == obstacles'[1]
  IN  << << Abs(px - o.x), ReachX >>,
         << Abs(py - o.y), ReachY >>,
         << Abs(PlayerZ - o.z), ReachZ >> >>

\* the obstacle o put on the other side of the player, at the same distances
Mirror(o) == [ x |-> 2 * px - o.x, y |-> 2 * py - o.y, z |-> 2 * PlayerZ - o.z ]

\* C17 (as claimed): an obstacle at exactly the reach on every axis does not
\* end the run, and one that is one unit closer on a single axis (still at
\* the reach on the other two) does.
C17_AsClaimed ==
  [][ (ActiveTick /\ Len(obstacles) = 1) =>
        /\ (\A a \in 1 .. 3 : Gaps[a][1] = Gaps[a][2]) => ~isGameOver'
        /\ (\E a \in 1 .. 3 :
              /\ Gaps[a][1] = Gaps[a][2] - SpeedIncrement
              /\ \A b \in (1 .. 3) \ { a } : Gaps[b][1] = Gaps[b][2])
             => isGameOver' ]_vars

\* C17 (amended): the test is strict on each axis: an obstacle at exactly
\* the reach on any axis does not end the run, wherever it is on the other
\* axes; one that is one unit inside the reach on every axis does; and the
\* test gives the same for the obstacle and for its mirror image about the
\* player.
C17_StrictOverlap ==
  [][ (ActiveTick /\ Len(obstacles) = 1) =>
        /\ (\E a \in 1 .. 3 : Gaps[a][1] = Gaps[a][2]) => ~isGameOver'
        /\ (\A a \in 1 .. 3 : Gaps[a][1] = Gaps[a][2] - SpeedIncrement)
             => isGameOver'
        /\ isPlayerColliding(Player, obstacles'[1])
             = isPlayerColliding(Player, Mirror(obstacles'[1]))
        /\ isGameOver' = isPlayerColliding(Player, obstacles'[1]) ]_vars

\* C17 witness: a tick has put the obstacle at exactly the reach on x and
\* one unit inside it on y and z, and the run goes on
C17_Witness ==
  /\ isGameActive /\ ~isGameOver /\ speed = BaseSpeed + SpeedIncrement
  /\ Len(obstacles) = 1
  /\ Abs(px - obstacles[1].x) = ReachX
  /\ Abs(py - obstacles[1].y) = ReachY - SpeedIncrement
  /\ Abs(PlayerZ - obstacles[1].z) = ReachZ - SpeedIncrement


\* C18 (as claimed): whenever no animateLaneChange callback is pending, the
\* player's x is exactly lanes[playerLane].
C18_AtLaneWhenSettled ==
  InFlight({ "animateLaneChange" }) = 0 => px = Lane(playerLane)


\* a callback of this kind is pending that has run k times
RunningAt(kind, k) ==
  \E i \in 1 .. Len(Pending) :
    Pending[i].kind = kind /\ Pending[i].progress = k

\* C19: while the display keeps refreshing, a jump that has started reaches
\* its 19th frame and then ends with the 20th, and a lane change that has
\* started reaches its 10th frame and then ends with the 11th, whatever the
\* phase and whatever ticks, keys, startGame() and restartGame() come in
\* between; no pending callback has run more often than that.
C19_AnimationsEnd ==
  /\ RunningAt("animateJump", 1) ~> RunningAt("animateJump", JumpSteps - 1)
  /\ RunningAt("animateJump", JumpSteps - 1)
       ~> ~RunningAt("animateJump", JumpSteps - 1)
  /\ RunningAt("animateLaneChange", 1)
       ~> RunningAt("animateLaneChange", LaneSteps - 1)
  /\ RunningAt("animateLaneChange", LaneSteps - 1)
       ~> ~RunningAt("animateLaneChange", LaneSteps - 1)
  /\ [](\A i \in 1 .. Len(Pending) :
          Pending[i].progress
            < (IF Pending[i].kind = "animateJump" THEN JumpSteps
               ELSE LaneSteps))

\* C19 witness: the run is over (a tick raised GameOver) while a jump that
\* began before is in its last frame
C19_Witness ==
  /\ isGameOver /\ ~isGameActive
  /\ RunningAt("animateJump", JumpSteps - 1)


\* C20 (as claimed): whatever startGame() and restartGame() calls the view
\* gets, at most one animate callback is pending, and once the view is
\* destroyed animate (and with it updateGame) is not called again.
C20_OneFrameLoop ==
  /\ [](InFlight({ "animate" }) <= 1)
  /\ [][ destroyed => ~GameComponent_animate ]_vars

=============================================================================
